---- MODULE Spec2Model ----
(***************************************************************************)
(* Equicord plugins: the paginated, rate-limit aware message fetcher       *)
(* (fetchMessages of aiagent / exportMessages) and the bounded             *)
(* conversation store of aiagent (conversationCache and its operations).   *)
(***************************************************************************)
EXTENDS Integers, Sequences, FiniteSets, TLC

(***************************************************************************)
(* Bounds of the model                                                     *)
(***************************************************************************)
\* largest target count N drawn when the remote API answers arbitrarily
MaxLimit == 3
\* longest page the arbitrary remote API returns (it may ignore the limit)
MaxPageLen == 2
\* longest small channel history of the faithful remote API
MaxHist == 3
\* histories and targets this far above the 100-message batch cap are drawn
Beyond == 1

(***************************************************************************)
(* Program constants                                                       *)
(***************************************************************************)
\* Math.min(100, remaining)
BatchMax == 100
\* setTimeout(resolve, 200)
PageDelayMs == 200
\* (allMessages.length / 100) * 50
DelayStepMs == 50
\* Math.min(..., 1000)
DelayCapMs == 1000
\* retry_after || 5
DefaultRetryAfter == 5
\* ... * 1000
MsPerSecond == 1000

Min(a, b) == IF a < b THEN a ELSE b

(***************************************************************************)
(* State: one run of fetchMessages and the conversation store              *)
(***************************************************************************)
VARIABLES
    variant,      \* which copy of fetchMessages runs: its inter-page delay
    api,          \* "faithful": pages come from history; "arbitrary": any page
    history,      \* the channel's messages on the remote end, oldest first
    limit,        \* the target count N
    pc,           \* "start", "await", "pageDelay", "retryDelay", "done", "rejected"
    allMessages,  \* collected so far
    beforeId,     \* the cursor, NoId while undefined
    req,          \* the page request issued last
    inflight,     \* page requests issued and not yet answered
    sleepMs,      \* duration of the pending setTimeout
    hint,         \* retry_after of the 429 answered last
    retrying,     \* the request in flight follows a 429 sleep
    retry,        \* request and collected list at the 429 answered last
    result,       \* the list the promise resolved with
    had429,       \* some request of the run was answered 429
    hadError,     \* some request of the run failed otherwise
    atFailure,    \* the collected list when that failure was caught
    fellBack,     \* the outer catch block ran
    loadedMessages \* what MessageStore.getMessages returned to the catch block

fvars == <<variant, api, history, limit, pc, allMessages, beforeId, req, inflight,
           sleepMs, hint, retrying, retry, result, had429, hadError, atFailure, fellBack,
           loadedMessages>>

VARIABLES
    conversationCache,       \* channel id -> list of entries; absent ids have no key
    maxConversationHistory,  \* settings.store.maxConversationHistory
    conversationHistoryDays, \* settings.store.conversationHistoryDays
    now,                     \* Date.now()
    persisted,               \* the DataStore record "aiagent-conversations"
    saveTimer,               \* ms left on the debounce timer of saveConversationData,
                             \* NoTimer while none is pending
    sinceCall,               \* ms since saveConversationData was called last, while
                             \* its timer is pending
    writes,                  \* the values of the set() calls in flight, oldest first,
                             \* the calls of one synchronous run taken as one
    loadState,               \* "idle", "loading" (awaiting get), "loaded", "failed"
                             \* (get rejected), "stopped"
    appends,                 \* entries appended so far
    lastOp,                  \* the store operation of the last step, its channel and
                             \* its entry (of a clear: the list the channel held),
                             \* the set() calls it made and whether it notified
                             \* the user
    appendLog                \* per channel: the entries appended since it was empty,
                             \* kept while count pruning alone has acted on it

svars == <<conversationCache, maxConversationHistory, conversationHistoryDays, now,
           persisted, saveTimer, sinceCall, writes, loadState, appends, lastOp,
           appendLog>>

VARIABLES
    credential,      \* the key of the selected provider is set in the settings
    agentPc,         \* runAIAgent: "idle", "context" (awaiting fetchMessages),
                     \* "provider" (awaiting the provider's answer), "done"
    includeContext,  \* the includeContext argument of the run
    network,         \* the network calls the run issued: "page", "provider"
    notice,          \* the notification the run showed last, "none" before any
    agentOutcome,    \* "none", "aborted", "responded", "failed"
    uncaught,        \* an error left a command handler uncaught
    agentRuns        \* calls of runAIAgent so far

avars == <<credential, agentPc, includeContext, network, notice, agentOutcome,
           uncaught, agentRuns>>

VARIABLES
    batch,     \* the fetched messages handed to a consumer, by kind
    consumer,  \* "none", "export" (the loop of exportMessages), "context"
               \* (the context builder of runAIAgent)
    pos,       \* messages of the batch the consumer has passed
    output,    \* what the consumer has output, one element per line
    finished   \* the consumer is through with the batch

mvars == <<batch, consumer, pos, output, finished>>

VARIABLES
    runs,        \* calls of fetchMessages made against the same history
    firstResult  \* what the first of them resolved with

rvars == <<runs, firstResult>>

VARIABLES
    runPc,  \* per concurrent run of runAIAgent: "idle", "provider" (awaiting
            \* the provider's answer), "responded", "failed"
    seen    \* per run: the conversation history it read when it was called

cvars == <<runPc, seen>>

VARIABLES
    maxRetries,    \* the maxRetries argument of fetchNoteWithRetry
    attempt,       \* the loop counter
    notePc,        \* "start", "await" (the request), "sleep", "done"
    noteAnswer,    \* the note the remote end holds, "" for none
    noteRequests,  \* requests issued so far
    noteLast,      \* status and retry_after of the error caught last
    noteWait,      \* ms of the sleep pending
    noteResult     \* what the promise resolved with

nvars == <<maxRetries, attempt, notePc, noteAnswer, noteRequests, noteLast, noteWait,
           noteResult>>

VARIABLES
    suppressedUsers,  \* the Set of suppressed user ids
    storedIds,        \* the DataStore record "ShutUpUser_suppressedIds"
    setQueue,         \* the values of the set() calls in flight, oldest first
    supLoad,          \* loadSuppressed: "idle", "loading", "loaded"
    calls,            \* the calls of toggleSuppressed: where each stands, its id,
                      \* what its toggle produced, what its notification said
    flips,            \* per id: toggles since the load completed, modulo 2
    loadedSet         \* the set the load installed

tvars == <<suppressedUsers, storedIds, setQueue, supLoad, calls, flips, loadedSet>>

\* concurrent runs of runAIAgent, fetchNoteWithRetry, the ShutUpUser plugin
others == <<cvars, nvars, tvars>>

\* everything but the state of fetchMessages, of the store, of runAIAgent
exceptFetch == <<svars, avars, mvars, rvars, others>>
exceptStore == <<fvars, avars, mvars, rvars, others>>
exceptStoreAgent == <<fvars, mvars, rvars, others>>

vars == <<fvars, svars, avars, mvars, rvars, cvars, nvars, tvars>>

(***************************************************************************)
(* Messages.  A message is a record with the two fields fetchMessages      *)
(* reads: id and timestamp (new Date(timestamp).getTime(), epoch ms).      *)
(* Null stands for a JSON null element of a response body: every property  *)
(* access on it throws a TypeError.                                        *)
(***************************************************************************)
NoId == 0
Null == [id |-> NoId, timestamp |-> 0]
IsNull(m) == m.id = NoId

MsgIds == {1, 2}
MsgTimes == {1, 2}
Message == [id : MsgIds, timestamp : MsgTimes]
\* what an element of a response body can be
BodyElement == Message \cup {Null}

RECURSIVE SeqsUpTo(_, _)
SeqsUpTo(S, n) ==
    IF n = 0 THEN {<<>>}
    ELSE LET shorter == SeqsUpTo(S, n - 1)
         IN  shorter \cup {Append(s, x) : s \in {t \in shorter : Len(t) = n - 1}, x \in S}

Range(s) == {s[i] : i \in DOMAIN s}
IdsOf(s) == {s[i].id : i \in DOMAIN s}

\* new Date(m.timestamp.toString()).getTime()
GetTime(m) == m.timestamp

(***************************************************************************)
(* Array.prototype.sort with the comparator timestampA - timestampB.       *)
(* The comparator is called on every element of an array of two or more    *)
(* elements and throws on a null element; the sort is stable.              *)
(***************************************************************************)
SortThrows(s) == Len(s) >= 2 /\ \E i \in DOMAIN s : IsNull(s[i])

SortByTimestamp(s) == SortSeq(s, LAMBDA a, b : GetTime(a) < GetTime(b))

(***************************************************************************)
(* allMessages.filter((message, index, array) =>                           *)
(*     array.findIndex(m => m.id === message.id) === index)                *)
(***************************************************************************)
FilterThrows(s) == \E i \in DOMAIN s : IsNull(s[i])

\* array.findIndex(m => m.id === s[i].id) === i: no earlier element has that id
IsFirstOfId(s, i) == \A j \in 1..(i - 1) : s[j].id # s[i].id

UniqueKeepAll(s) == s

Unique(s) ==
    LET kept == SelectSeq([i \in 1..Len(s) |-> i], LAMBDA i : IsFirstOfId(s, i))
    IN  [k \in 1..Len(kept) |-> s[kept[k]]]

\* Array.prototype.slice(-n): -0 is 0, so slice(-0) is the whole array
SliceFirst(s, n) ==
    IF n = 0 \/ n >= Len(s) THEN s ELSE SubSeq(s, 1, n)
SliceLast(s, n) ==
    IF n = 0 \/ n >= Len(s) THEN s ELSE SubSeq(s, Len(s) - n + 1, Len(s))

(***************************************************************************)
(* The remote message API and the host's MessageStore                      *)
(***************************************************************************)
\* retry_after of a 429 body, in seconds; NoHint: the body carries none
NoHint == -1
RetryHints == {NoHint, 0, 1, 2}

\* timestamps of a history: strictly increasing, or equal in pairs
TsSchemes == {"strict", "paired"}
MkHistory(h, scheme) ==
    [i \in 1..h |-> [id |-> i,
                     timestamp |-> IF scheme = "strict" THEN i ELSE (i + 1) \div 2]]
HistLens == (0..MaxHist) \cup (BatchMax..(BatchMax + Beyond))
BigLimits == (BatchMax - 1)..(BatchMax + Beyond)
Histories == {MkHistory(h, sc) : h \in HistLens, sc \in TsSchemes}

\* GET /channels/{id}/messages?limit=lim[&before=b] answered from history:
\* the lim newest messages older than b, newest first
PageOf(hist, lim, before) ==
    LET older == IF before = NoId THEN Len(hist) ELSE Min(before - 1, Len(hist))
    IN  [j \in 1..Min(lim, older) |-> hist[older - j + 1]]

\* MessageStore.getMessages(channelId): absent, or an object whose _array
\* holds the host's cached messages of the channel (one per id)
MaxLoaded == 2
NotLoaded == [present |-> FALSE, array |-> <<>>]
LoadedChoices ==
    {NotLoaded} \cup
    {[present |-> TRUE, array |-> s] :
        s \in {t \in SeqsUpTo(Message, MaxLoaded) :
                  \A i, j \in DOMAIN t : i # j => t[i].id # t[j].id}}

(***************************************************************************)
(* fetchMessages                                                           *)
(***************************************************************************)
Variants == {"aiagent", "export"}
NoReq == [limit |-> 0, before |-> NoId]
NoRetry == [req |-> NoReq, all |-> <<>>]

\* const batchSize = Math.min(100, remaining)
BatchSizeFull(all, lim) == BatchMax
BatchSize(all, lim) == Min(BatchMax, lim - Len(all))

\* the delay before the next page: 200 ms, or Math.min(200 + len/100*50, 1000)
DelayPer == 100
PageDelay(v, all) ==
    IF v = "aiagent" THEN PageDelayMs
    ELSE Min(PageDelayMs + (Len(all) * DelayStepMs) \div DelayPer, DelayCapMs)

\* (apiError?.body?.retry_after || 5) * 1000
RetryDelay(h) == (IF h = NoHint \/ h = 0 THEN DefaultRetryAfter ELSE h) * MsPerSecond

\* beforeId = response.body[response.body.length - 1].id
NextCursorFirst(body) == body[1].id
NextCursor(body) == body[Len(body)].id

Returned(list) == [status |-> "done", value |-> list]
Rejected == [status |-> "rejected", value |-> <<>>]

\* the outer catch block: the MessageStore fallback
CatchBlockRethrow(lim, loaded) == Rejected
CatchBlock(lim, loaded) ==
    IF ~loaded.present THEN Returned(<<>>)
    ELSE IF SortThrows(loaded.array) THEN Rejected
    ELSE Returned(SliceLast(SortByTimestamp(loaded.array), lim))

\* does the code after the loop throw: the sort, then the filter
TryThrows(all) == SortThrows(all) \/ FilterThrows(all)

\* the code after the loop: sort, deduplicate, slice; the catch block if it throws
\* as if the failure reached the outer catch block
OutcomeAlwaysCatch(all, lim, loaded) == CatchBlock(lim, loaded)
Outcome(all, lim, loaded) ==
    IF TryThrows(all) THEN CatchBlock(lim, loaded)
    ELSE Returned(SliceLast(Unique(SortByTimestamp(all)), lim))

\* where the run stands once RestAPI.get has been called: suspended on await
PcAfterIssueNoAwait == "pageDelay"
PcAfterIssue == "await"

Finish(all) ==
    \E loaded \in (IF TryThrows(all) THEN LoadedChoices ELSE {NotLoaded}) :
        LET o == Outcome(all, limit, loaded)
        IN  /\ pc' = o.status
            /\ result' = o.value
            /\ fellBack' = TryThrows(all)
            /\ loadedMessages' = loaded

\* while (allMessages.length < limit) { ... RestAPI.get(...) }, else the code
\* after the loop
LoopHead(all, before, flying) ==
    IF Len(all) < limit
    THEN /\ req' = [limit |-> BatchSize(all, limit), before |-> before]
         /\ inflight' = flying + 1
         /\ pc' = PcAfterIssue
         /\ UNCHANGED <<result, fellBack, loadedMessages>>
    ELSE /\ Finish(all)
         /\ inflight' = flying
         /\ UNCHANGED req

\* fetchMessages(channelId, limit) is called
Call ==
    /\ pc = "start"
    /\ LoopHead(allMessages, beforeId, inflight)
    /\ UNCHANGED <<variant, api, history, limit, allMessages, beforeId, sleepMs, hint,
                   retrying, retry, had429, hadError, atFailure>>
    /\ UNCHANGED exceptFetch

\* the bodies the remote end can answer the request in flight with
Bodies ==
    IF api = "faithful" THEN {PageOf(history, req.limit, req.before)}
    ELSE SeqsUpTo(BodyElement, MaxPageLen)

\* a non-empty page arrives: push it, advance the cursor, start the delay;
\* a null last element makes the cursor assignment throw into the inner catch,
\* which breaks out of the loop
ReceivePage ==
    /\ pc = "await" /\ inflight > 0
    /\ \E body \in Bodies :
        /\ Len(body) > 0
        /\ allMessages' = allMessages \o body
        /\ IF IsNull(body[Len(body)])
           THEN /\ Finish(allMessages')
                /\ UNCHANGED <<beforeId, sleepMs>>
           ELSE /\ beforeId' = NextCursor(body)
                /\ sleepMs' = PageDelay(variant, allMessages')
                /\ pc' = "pageDelay"
                /\ UNCHANGED <<result, fellBack, loadedMessages>>
    /\ inflight' = inflight - 1
    /\ retrying' = FALSE
    /\ retry' = NoRetry
    /\ hint' = NoHint
    /\ UNCHANGED <<variant, api, history, limit, req, had429, hadError, atFailure>>
    /\ UNCHANGED exceptFetch

\* an empty page, or a response without an array body: break
ReceiveEmpty ==
    /\ pc = "await" /\ inflight > 0
    /\ api = "arbitrary" \/ <<>> \in Bodies
    /\ Finish(allMessages)
    /\ inflight' = inflight - 1
    /\ retrying' = FALSE
    /\ retry' = NoRetry
    /\ hint' = NoHint
    /\ UNCHANGED <<variant, api, history, limit, allMessages, beforeId, req, sleepMs,
                   had429, hadError, atFailure>>
    /\ UNCHANGED exceptFetch

\* the request is rejected with status 429: sleep, then continue
Receive429 ==
    /\ pc = "await" /\ inflight > 0
    /\ \E h \in RetryHints :
        /\ hint' = h
        /\ sleepMs' = RetryDelay(h)
    /\ retry' = [req |-> req, all |-> allMessages]
    /\ pc' = "retryDelay"
    /\ inflight' = inflight - 1
    /\ retrying' = FALSE
    /\ had429' = TRUE
    /\ UNCHANGED <<variant, api, history, limit, allMessages, beforeId, req, result,
                   hadError, atFailure, fellBack, loadedMessages>>
    /\ UNCHANGED exceptFetch

\* the request is rejected with anything else: break
ReceiveError ==
    /\ pc = "await" /\ inflight > 0
    /\ hadError' = TRUE
    /\ atFailure' = allMessages
    /\ Finish(allMessages)
    /\ inflight' = inflight - 1
    /\ retrying' = FALSE
    /\ retry' = NoRetry
    /\ hint' = NoHint
    /\ UNCHANGED <<variant, api, history, limit, allMessages, beforeId, req, sleepMs,
                   had429>>
    /\ UNCHANGED exceptFetch

\* the setTimeout of the pending sleep fires: back to the loop condition
TimerFires ==
    /\ pc \in {"pageDelay", "retryDelay"}
    /\ LoopHead(allMessages, beforeId, inflight)
    /\ retrying' = (pc = "retryDelay")
    /\ sleepMs' = 0
    /\ UNCHANGED <<variant, api, history, limit, allMessages, beforeId, hint, retry,
                   had429, hadError, atFailure>>
    /\ UNCHANGED exceptFetch

FetchInit ==
    /\ variant \in Variants
    /\ \/ /\ api = "faithful"
          /\ history \in Histories
          /\ limit \in (0..MaxLimit) \cup BigLimits
       \/ /\ api = "arbitrary"
          /\ history = <<>>
          /\ limit \in 0..MaxLimit
    /\ pc = "start"
    /\ allMessages = <<>>
    /\ beforeId = NoId
    /\ req = NoReq
    /\ inflight = 0
    /\ sleepMs = 0
    /\ hint = NoHint
    /\ retrying = FALSE
    /\ retry = NoRetry
    /\ result = <<>>
    /\ had429 = FALSE
    /\ hadError = FALSE
    /\ atFailure = <<>>
    /\ fellBack = FALSE
    /\ loadedMessages = NotLoaded

\* the remote end answers one request of a run at most with 429
Receive429Once ==
    /\ ~had429
    /\ Receive429

CalmNext ==
    \/ Call
    \/ ReceivePage
    \/ ReceiveEmpty
    \/ Receive429Once
    \/ ReceiveError
    \/ TimerFires

FetchNext ==
    \/ Call
    \/ ReceivePage
    \/ ReceiveEmpty
    \/ Receive429
    \/ ReceiveError
    \/ TimerFires

(***************************************************************************)
(* The conversation store of aiagent                                       *)
(***************************************************************************)
\* most entries appended in one behaviour
MaxAppends == 2
\* the clock runs from day 0 to this day
MaxClock == 1
\* largest maxConversationHistory a user sets
MaxCount == 2
\* largest conversationHistoryDays a user sets
MaxDays == 1
\* most writes to the DataStore in flight
MaxWrites == 1

\* days * 24 * 60 * 60 * 1000
DayMs == 24 * 60 * 60 * 1000

\* debounce(saveConversationDataImmediate, 1000)
DebounceMs == 1000
\* the step in which the time of the debounce timer passes
TimeStep == DebounceMs \div 2
NoTimer == 0

\* the arguments of addToConversation; role and content are stored as given
Channels == {"c1"}
Roles == {"user"}
Contents == {"p"}

EmptyCache == [c \in {} |-> <<>>]
\* no record under the key: get resolves undefined
NoRecord == [present |-> FALSE, data |-> EmptyCache]
Record(cache) == [present |-> TRUE, data |-> cache]

\* conversationCache[channelId] || []
GetConversationHistory(cache, ch) == IF ch \in DOMAIN cache THEN cache[ch] ELSE <<>>

\* conversation.filter(entry => entry.timestamp > cutoffTime)
FilterByAge(conv, days, t) ==
    SelectSeq(conv, LAMBDA e : e.timestamp > t - days * DayMs)

\* the age step of cleanupConversationHistory
AgeStepAlways(conv, days, t) ==
    FilterByAge(conv, IF days > 0 THEN days ELSE 1, t)
AgeStep(conv, days, t) ==
    IF days > 0 THEN FilterByAge(conv, days, t) ELSE conv

\* the count step: currentConversation.slice(-maxConversationHistory)
CountStepOff(conv, max) == conv
CountStepFirst(conv, max) ==
    IF max > 0 /\ Len(conv) > max THEN SubSeq(conv, 1, max) ELSE conv
CountStep(conv, max) ==
    IF max > 0 /\ Len(conv) > max THEN SliceLast(conv, max) ELSE conv

\* cleanupConversationHistory(channelId): the pruned cache and the number of
\* saveConversationDataImmediate calls it makes
CleanupConversationHistoryAlwaysSaves(cache, ch, max, days, t) ==
    IF ch \notin DOMAIN cache \/ Len(cache[ch]) = 0
    THEN [cache |-> cache, saves |-> 0]
    ELSE [cache |-> [cache EXCEPT ![ch] = CountStep(AgeStep(cache[ch], days, t), max)],
          saves |-> 1]
CleanupConversationHistory(cache, ch, max, days, t) ==
    IF ch \notin DOMAIN cache \/ Len(cache[ch]) = 0
    THEN [cache |-> cache, saves |-> 0]
    ELSE LET aged == AgeStep(cache[ch], days, t)
             kept == CountStep(aged, max)
             needsCleanup == Len(aged) # Len(cache[ch]) \/ Len(kept) # Len(aged)
         IN  [cache |-> [cache EXCEPT ![ch] = kept],
              saves |-> IF needsCleanup THEN 1 ELSE 0]

\* cleanupAllConversations(): every channel pruned; one save per pruned channel
\* and one more when any list changed length
CleanupAllNoSave(cache, max, days, t) ==
    [cache |-> [c \in DOMAIN cache |->
                   CleanupConversationHistory(cache, c, max, days, t).cache[c]],
     saves |-> 0]
CleanupAllConversations(cache, max, days, t) ==
    LET pruned == [c \in DOMAIN cache |->
                      CleanupConversationHistory(cache, c, max, days, t)]
        changed == {c \in DOMAIN cache : Len(pruned[c].cache[c]) # Len(cache[c])}
        perChannel == Cardinality({c \in DOMAIN cache : pruned[c].saves = 1})
    IN  [cache |-> [c \in DOMAIN cache |-> pruned[c].cache[c]],
         saves |-> perChannel + (IF changed # {} THEN 1 ELSE 0)]

\* n set() calls made in one synchronous run: the DataStore clones the value
\* when its transaction starts, after the run, so all n carry the final cache;
\* they are queued as one write of that value
Issue(queue, n, cache) ==
    IF n = 0 THEN queue ELSE Append(queue, [data |-> cache])

NoOp == [kind |-> "none", ch |-> "", entry |-> <<>>, saves |-> 0, notice |-> FALSE]
NoCount == [log |-> <<>>, counted |-> FALSE]
NoLog == [c \in Channels |-> NoCount]

\* the log of a channel after an append: it restarts with the entry when the
\* channel was empty; it stays countable while only the count step removes
LogAfterAppend(cache, ch, entry, days, t) ==
    LET old == GetConversationHistory(cache, ch)
        pushed == Append(old, entry)
    IN  IF Len(old) = 0
        THEN IF maxConversationHistory > 0
             THEN [log |-> <<entry>>, counted |-> TRUE]
             ELSE NoCount
        ELSE IF appendLog[ch].counted /\ Len(AgeStep(pushed, days, t)) = Len(pushed)
             THEN [log |-> Append(appendLog[ch].log, entry), counted |-> TRUE]
             ELSE NoCount

\* the debounced function is called: clearTimeout, then setTimeout(func, delay)
TimerAfterCallKept(timer) == IF timer = NoTimer THEN DebounceMs ELSE timer
TimerAfterCall(timer) == DebounceMs

\* the plugin's commands are registered from start() to stop()
Running == loadState \in {"loading", "loaded", "failed"}

\* conversationCache[channelId] = []; conversationCache[channelId].push(entry)
PushFront(cache, ch, entry) ==
    [c \in DOMAIN cache \cup {ch} |->
        IF c = ch THEN <<entry>> \o GetConversationHistory(cache, ch) ELSE cache[c]]
Push(cache, ch, entry) ==
    [c \in DOMAIN cache \cup {ch} |->
        IF c = ch THEN Append(GetConversationHistory(cache, ch), entry) ELSE cache[c]]

\* addToConversation(channelId, role, content)
AddToConversation ==
    /\ Running
    /\ appends < MaxAppends
    /\ \E ch \in Channels, role \in Roles, content \in Contents :
        LET entry == [role |-> role, content |-> content, timestamp |-> now]
            pushed == Push(conversationCache, ch, entry)
            r == CleanupConversationHistory(pushed, ch, maxConversationHistory,
                                            conversationHistoryDays, now)
        IN  /\ conversationCache' = r.cache
            /\ writes' = Issue(writes, r.saves, r.cache)
            /\ lastOp' = [NoOp EXCEPT !.kind = "append", !.ch = ch, !.entry = entry,
                                     !.saves = r.saves]
            /\ appendLog' = [appendLog EXCEPT ![ch] =
                   LogAfterAppend(conversationCache, ch, entry,
                                  conversationHistoryDays, now)]
    /\ Len(writes') <= MaxWrites
    /\ saveTimer' = TimerAfterCall(saveTimer)
    /\ sinceCall' = 0
    /\ appends' = appends + 1
    /\ UNCHANGED <<maxConversationHistory, conversationHistoryDays, now, persisted,
                   loadState>>
    /\ UNCHANGED exceptStore

\* a step of the debounce delay passes, the timer still pending after it
Elapse ==
    /\ saveTimer > TimeStep
    /\ saveTimer' = saveTimer - TimeStep
    /\ sinceCall' = sinceCall + TimeStep
    /\ lastOp' = NoOp
    /\ UNCHANGED <<conversationCache, maxConversationHistory, conversationHistoryDays,
                   now, persisted, writes, loadState, appends, appendLog>>
    /\ UNCHANGED exceptStore

\* the last step of the debounce delay passes and the timer fires:
\* saveConversationDataImmediate()
DebounceFires ==
    /\ saveTimer # NoTimer /\ saveTimer <= TimeStep
    /\ Len(writes) < MaxWrites
    /\ saveTimer' = NoTimer
    /\ sinceCall' = 0
    /\ writes' = Issue(writes, 1, conversationCache)
    /\ lastOp' = [NoOp EXCEPT !.kind = "flush", !.saves = 1]
    /\ UNCHANGED <<conversationCache, maxConversationHistory, conversationHistoryDays,
                   now, persisted, loadState, appends, appendLog>>
    /\ UNCHANGED exceptStore

\* the DataStore runs its transactions in the order they were made: a set()
\* made while get is pending settles after it
GetPending == loadState = "loading"

\* the set() calls of the oldest run in flight settle, one of them resolving
WriteSucceeds ==
    /\ writes # <<>>
    /\ ~GetPending
    /\ persisted' = Record(Head(writes).data)
    /\ writes' = Tail(writes)
    /\ lastOp' = NoOp
    /\ UNCHANGED <<conversationCache, maxConversationHistory, conversationHistoryDays,
                   now, saveTimer, sinceCall, loadState, appends, appendLog>>
    /\ UNCHANGED exceptStore

\* the set() calls of the oldest run in flight all reject:
\* saveConversationDataImmediate catches the error and shows a notification;
\* nothing is retried
WriteFails ==
    /\ writes # <<>>
    /\ ~GetPending
    /\ writes' = Tail(writes)
    /\ lastOp' = [NoOp EXCEPT !.kind = "saveFailed", !.notice = TRUE]
    /\ UNCHANGED <<conversationCache, maxConversationHistory, conversationHistoryDays,
                   now, persisted, saveTimer, sinceCall, loadState, appends, appendLog>>
    /\ UNCHANGED exceptStore

\* delete conversationCache[channelId]
DeleteKeyNothing(cache, ch) == cache
DeleteKey(cache, ch) == [c \in DOMAIN cache \ {ch} |-> cache[c]]

\* clearConversation(channelId), the /aiclear command
ClearConversation ==
    /\ Running
    /\ Len(writes) < MaxWrites
    /\ \E ch \in Channels :
        /\ conversationCache' = DeleteKey(conversationCache, ch)
        /\ lastOp' = [NoOp EXCEPT !.kind = "clear", !.ch = ch, !.saves = 1,
                            !.entry = GetConversationHistory(conversationCache, ch)]
        /\ appendLog' = [appendLog EXCEPT ![ch] = NoCount]
    /\ writes' = Issue(writes, 1, conversationCache')
    /\ UNCHANGED <<maxConversationHistory, conversationHistoryDays, now, persisted,
                   saveTimer, sinceCall, loadState, appends>>
    /\ UNCHANGED exceptStore

\* every channel's log is no longer a record of count pruning alone
Uncounted == NoLog

\* the /aicleanup command: cleanupAllConversations(), then
\* await saveConversationDataImmediate()
CleanupCommand ==
    LET r == CleanupAllConversations(conversationCache, maxConversationHistory,
                                     conversationHistoryDays, now)
    IN  /\ Running
        /\ conversationCache' = r.cache
        /\ writes' = Issue(writes, r.saves + 1, r.cache)
        /\ Len(writes') <= MaxWrites
        /\ lastOp' = [NoOp EXCEPT !.kind = "cleanup", !.saves = r.saves + 1]
        /\ appendLog' = Uncounted
        /\ UNCHANGED <<maxConversationHistory, conversationHistoryDays, now, persisted,
                       saveTimer, sinceCall, loadState, appends>>
        /\ UNCHANGED exceptStore

\* start(): loadConversationData() calls get and suspends
Start ==
    /\ loadState = "idle"
    /\ loadState' = "loading"
    /\ lastOp' = NoOp
    /\ UNCHANGED <<conversationCache, maxConversationHistory, conversationHistoryDays,
                   now, persisted, saveTimer, sinceCall, writes, appends,
                   appendLog>>
    /\ UNCHANGED exceptStore

\* get resolves: the record replaces the cache and every channel is pruned
LoadCompletes ==
    /\ loadState = "loading"
    /\ loadState' = "loaded"
    /\ IF persisted.present
       THEN LET r == CleanupAllConversations(persisted.data, maxConversationHistory,
                                             conversationHistoryDays, now)
            IN  /\ conversationCache' = r.cache
                /\ writes' = Issue(writes, r.saves, r.cache)
                /\ Len(writes') <= MaxWrites
                /\ lastOp' = [NoOp EXCEPT !.kind = "load", !.saves = r.saves]
                /\ appendLog' = Uncounted
       ELSE /\ lastOp' = NoOp
            /\ UNCHANGED <<conversationCache, writes, appendLog>>
    /\ UNCHANGED <<maxConversationHistory, conversationHistoryDays, now, persisted,
                   saveTimer, sinceCall, appends>>
    /\ UNCHANGED exceptStore

\* get rejects: the error is logged
LoadFails ==
    /\ loadState = "loading"
    /\ loadState' = "failed"
    /\ lastOp' = [NoOp EXCEPT !.kind = "loadFailed"]
    /\ UNCHANGED <<conversationCache, maxConversationHistory, conversationHistoryDays,
                   now, persisted, saveTimer, sinceCall, writes, appends,
                   appendLog>>
    /\ UNCHANGED exceptStore

\* stop(): await saveConversationDataImmediate()
Stop ==
    /\ loadState \in {"loaded", "failed"}
    /\ Len(writes) < MaxWrites
    /\ loadState' = "stopped"
    /\ writes' = Issue(writes, 1, conversationCache)
    /\ lastOp' = [NoOp EXCEPT !.kind = "stop", !.saves = 1]
    /\ UNCHANGED <<conversationCache, maxConversationHistory, conversationHistoryDays,
                   now, persisted, saveTimer, sinceCall, appends, appendLog>>
    /\ UNCHANGED exceptStore

\* the user edits one of the retention settings
ChangeSettings ==
    /\ \/ \E max \in (0..MaxCount) \ {maxConversationHistory} :
            /\ maxConversationHistory' = max
            /\ appendLog' = Uncounted
            /\ UNCHANGED conversationHistoryDays
       \/ \E days \in (0..MaxDays) \ {conversationHistoryDays} :
            /\ conversationHistoryDays' = days
            /\ UNCHANGED <<maxConversationHistory, appendLog>>
    /\ lastOp' = NoOp
    /\ UNCHANGED <<conversationCache, now, persisted, saveTimer, sinceCall, writes,
                   loadState, appends>>
    /\ UNCHANGED exceptStore

\* a day passes: a pending debounce timer has fired by then
Tick ==
    /\ now < MaxClock * DayMs
    /\ saveTimer = NoTimer
    /\ now' = now + DayMs
    /\ lastOp' = NoOp
    /\ UNCHANGED <<conversationCache, maxConversationHistory, conversationHistoryDays,
                   persisted, saveTimer, sinceCall, writes, loadState, appends,
                   appendLog>>
    /\ UNCHANGED exceptStore

\* the record a previous session left: none, or two entries written on day 0
OldEntry(c) == [role |-> "user", content |-> c, timestamp |-> 0]
PersistedChoices ==
    {NoRecord, Record([c \in {"c1"} |-> <<OldEntry("p"), OldEntry("q")>>])}

StoreInit ==
    /\ conversationCache = EmptyCache
    /\ maxConversationHistory \in 0..MaxCount
    /\ conversationHistoryDays \in 0..MaxDays
    /\ now = 0
    /\ persisted \in PersistedChoices
    /\ saveTimer = NoTimer
    /\ sinceCall = 0
    /\ writes = <<>>
    /\ loadState = "idle"
    /\ appends = 0
    /\ lastOp = NoOp
    /\ appendLog = NoLog

StoreNext ==
    \/ AddToConversation
    \/ Elapse
    \/ DebounceFires
    \/ WriteSucceeds
    \/ WriteFails
    \/ ClearConversation
    \/ CleanupCommand
    \/ Start
    \/ LoadCompletes
    \/ LoadFails
    \/ Stop
    \/ ChangeSettings
    \/ Tick

(***************************************************************************)
(* runAIAgent and the commands of aiagent                                  *)
(***************************************************************************)
\* most calls of runAIAgent in one behaviour
MaxRuns == 2

\* the prompt argument: the /ai command returns early on an empty one
Prompt == "p"
\* data.choices[0].message.content of a provider answer that passed the
\* checks of callOpenRouter / callChutes: a string, or JSON null
NullContent == "null"
Responses == {"r", NullContent}

\* provider === "openrouter" && !openrouterApiKey, provider === "chutes" &&
\* !chutesApiKey: the run goes on when the key of the selected provider is set
CredentialOkAlways(cred) == TRUE
CredentialOk(cred) == cred

\* the entries of one exchange in the order of the two addToConversation calls
ExchangeEntriesSwapped(prompt, response, t) ==
    <<[role |-> "assistant", content |-> response, timestamp |-> t],
      [role |-> "user", content |-> prompt, timestamp |-> t]>>
ExchangeEntries(prompt, response, t) ==
    <<[role |-> "user", content |-> prompt, timestamp |-> t],
      [role |-> "assistant", content |-> response, timestamp |-> t]>>

\* callAIProvider(messages) up to its await, the processing notification
\* shown before it: callOpenRouter / callChutes read the key again and throw
\* without a request when it is not set; the throw reaches the catch block of
\* runAIAgent
CallAIProvider(net) ==
    IF credential
    THEN /\ network' = net \cup {"provider"}
         /\ agentPc' = "provider"
         /\ notice' = "processing"
         /\ agentOutcome' = "none"
    ELSE /\ network' = net
         /\ agentPc' = "done"
         /\ notice' = "error"
         /\ agentOutcome' = "failed"

\* the /ai command: runAIAgent(channelId, prompt, includeContext, contextCount)
\* up to its first await
AiCommand ==
    /\ Running
    /\ agentPc \in {"idle", "done"}
    /\ agentRuns < MaxRuns
    /\ agentRuns' = agentRuns + 1
    /\ \E ctx \in BOOLEAN :
        /\ includeContext' = ctx
        /\ IF ~CredentialOk(credential)
           THEN /\ notice' = "configure"
                /\ agentPc' = "done"
                /\ agentOutcome' = "aborted"
                /\ network' = {}
           ELSE IF ctx
                THEN \* fetchMessages issues its first page request
                     /\ network' = {"page"}
                     /\ agentPc' = "context"
                     /\ notice' = "processing"
                     /\ agentOutcome' = "none"
                ELSE CallAIProvider({})
    /\ UNCHANGED <<credential, uncaught>>
    /\ UNCHANGED svars
    /\ UNCHANGED exceptStoreAgent

\* fetchMessages settles: the context is added, or dropped by the inner catch
\* block; then callAIProvider(messages)
ContextArrives ==
    /\ agentPc = "context"
    /\ CallAIProvider(network)
    /\ UNCHANGED <<credential, includeContext, uncaught, agentRuns>>
    /\ UNCHANGED svars
    /\ UNCHANGED exceptStoreAgent

\* the provider answers with choices[0].message: the two addToConversation
\* calls, sendBotMessage and the success notification
ProviderResponds ==
    /\ agentPc = "provider"
    /\ appends + 2 <= MaxAppends
    /\ \E ch \in Channels, response \in Responses :
        LET es == ExchangeEntries(Prompt, response, now)
            r1 == CleanupConversationHistory(Push(conversationCache, ch, es[1]), ch,
                      maxConversationHistory, conversationHistoryDays, now)
            r2 == CleanupConversationHistory(Push(r1.cache, ch, es[2]), ch,
                      maxConversationHistory, conversationHistoryDays, now)
        IN  /\ conversationCache' = r2.cache
            /\ writes' = Issue(writes, r1.saves + r2.saves, r2.cache)
            /\ lastOp' = [NoOp EXCEPT !.kind = "exchange", !.ch = ch, !.entry = es[2],
                                     !.saves = r1.saves + r2.saves]
            /\ appendLog' = [appendLog EXCEPT ![ch] = NoCount]
    /\ Len(writes') <= MaxWrites
    /\ saveTimer' = TimerAfterCall(TimerAfterCall(saveTimer))
    /\ sinceCall' = 0
    /\ appends' = appends + 2
    /\ agentPc' = "done"
    /\ notice' = "sent"
    /\ agentOutcome' = "responded"
    /\ UNCHANGED <<maxConversationHistory, conversationHistoryDays, now, persisted,
                   loadState>>
    /\ UNCHANGED <<credential, includeContext, network, uncaught, agentRuns>>
    /\ UNCHANGED exceptStoreAgent

\* the provider request fails (the fetch rejects, the status is not ok, the
\* body has no choices[0].message): the error reaches the catch block of
\* runAIAgent, which shows it
ProviderFails ==
    /\ agentPc = "provider"
    /\ agentPc' = "done"
    /\ notice' = "error"
    /\ agentOutcome' = "failed"
    /\ UNCHANGED <<credential, includeContext, network, uncaught, agentRuns>>
    /\ UNCHANGED svars
    /\ UNCHANGED exceptStoreAgent

\* the user sets or removes the key of the selected provider in the settings
SetCredential ==
    /\ credential' = ~credential
    /\ UNCHANGED <<agentPc, includeContext, network, notice, agentOutcome, uncaught,
                   agentRuns>>
    /\ UNCHANGED svars
    /\ UNCHANGED exceptStoreAgent

\* lastEntry.content.length of the /aihistory command: a TypeError on null
HistoryThrows(conv) == Len(conv) > 0 /\ conv[Len(conv)].content = NullContent

\* the /aihistory command: no try block around its body
AiHistoryCommand ==
    /\ Running
    /\ \E ch \in Channels :
        /\ uncaught' = (uncaught \/ HistoryThrows(GetConversationHistory(conversationCache, ch)))
        /\ lastOp' = [NoOp EXCEPT !.kind = "history", !.ch = ch,
                         !.notice = ~HistoryThrows(GetConversationHistory(conversationCache, ch))]
    /\ UNCHANGED <<credential, agentPc, includeContext, network, notice, agentOutcome,
                   agentRuns>>
    /\ UNCHANGED <<conversationCache, maxConversationHistory, conversationHistoryDays,
                   now, persisted, saveTimer, sinceCall, writes, loadState, appends,
                   appendLog>>
    /\ UNCHANGED exceptStoreAgent

AgentInit ==
    /\ credential \in BOOLEAN
    /\ agentPc = "idle"
    /\ includeContext = FALSE
    /\ network = {}
    /\ notice = "none"
    /\ agentOutcome = "none"
    /\ uncaught = FALSE
    /\ agentRuns = 0

\* the commands of aiagent and what the host delivers to it
AgentNext ==
    \/ Start
    \/ LoadCompletes
    \/ AiCommand
    \/ ContextArrives
    \/ ProviderResponds
    \/ ProviderFails
    \/ SetCredential
    \/ AiHistoryCommand
    \/ ClearConversation
    \/ Elapse
    \/ DebounceFires
    \/ WriteSucceeds

(***************************************************************************)
(* The consumers of a fetched batch: the loop of exportMessages and the    *)
(* context builder of runAIAgent                                           *)
(***************************************************************************)
\* longest batch handed to a consumer
MaxBatch == 3

\* messages by what formatMessage does with them: two well-formed ones, one
\* whose author is undefined, one with an author and a field formatMessage
\* cannot read (a content that is no string: .trim is not a function)
Kinds == {"ok1", "ok2", "noAuthor", "badField"}
HasAuthor(k) == k # "noAuthor"

\* formatMessage(message, allMessages) throws: author.username of undefined,
\* or the unreadable field
FormatThrows(k) == k \in {"noAuthor", "badField"}

\* the lines of the output
Line(k) == [line |-> "message", of |-> k]
Placeholder == [line |-> "[Error: Could not format this message]", of |-> ""]

\* processedCount: the messages formatted so far
Processed(out) == Cardinality({i \in DOMAIN out : out[i].line = "message"})

\* one iteration of the loop of exportMessages: a message without author is
\* passed over, a throw of formatMessage is replaced by the placeholder
ExportIteration(out, k) ==
    IF HasAuthor(k)
    THEN IF FormatThrows(k) THEN Append(out, Placeholder) ELSE Append(out, Line(k))
    ELSE out

ExportStep ==
    /\ consumer = "export"
    /\ ~finished
    /\ pos < Len(batch)
    /\ output' = ExportIteration(output, batch[pos + 1])
    /\ pos' = pos + 1
    /\ UNCHANGED <<batch, consumer, finished>>
    /\ UNCHANGED <<fvars, svars, avars, rvars, others>>

\* after the loop: nothing is exported when processedCount is 0, else the
\* content goes to the clipboard or the file
ExportEnds ==
    /\ consumer = "export"
    /\ ~finished
    /\ pos = Len(batch)
    /\ output' = IF Processed(output) = 0 THEN <<>> ELSE output
    /\ finished' = TRUE
    /\ UNCHANGED <<batch, consumer, pos>>
    /\ UNCHANGED <<fvars, svars, avars, rvars, others>>

\* contextMessages.map(msg => formatMessage(msg, contextMessages)) inside the
\* try block of runAIAgent: a throw of any formatMessage leaves the map, the
\* catch block logs it and the run goes on without context
ContextContent(b) ==
    IF \E i \in DOMAIN b : FormatThrows(b[i])
    THEN <<>>
    ELSE [i \in DOMAIN b |-> Line(b[i])]

BuildContext ==
    /\ consumer = "context"
    /\ ~finished
    /\ output' = ContextContent(batch)
    /\ pos' = Len(batch)
    /\ finished' = TRUE
    /\ UNCHANGED <<batch, consumer>>
    /\ UNCHANGED <<fvars, svars, avars, rvars, others>>

FormatInit ==
    /\ batch \in SeqsUpTo(Kinds, MaxBatch)
    /\ consumer \in {"export", "context"}
    /\ pos = 0
    /\ output = <<>>
    /\ finished = FALSE

FormatNext ==
    \/ ExportStep
    \/ ExportEnds
    \/ BuildContext

(***************************************************************************)
(* fetchMessages called again on an unchanged history                      *)
(***************************************************************************)
\* most calls after the first
MaxRefetch == 1

\* let beforeId: string | undefined, a local of each call
CursorAtCallKept(prev) == prev
CursorAtCall(prev) == NoId

\* fetchMessages(channelId, limit) is called again with the same arguments
\* once the previous call has resolved: every local starts afresh
CallAgain ==
    /\ pc = "done"
    /\ runs < MaxRefetch
    /\ runs' = runs + 1
    /\ firstResult' = result
    /\ allMessages' = <<>>
    /\ beforeId' = CursorAtCall(beforeId)
    /\ LoopHead(<<>>, CursorAtCall(beforeId), inflight)
    /\ sleepMs' = 0
    /\ hint' = NoHint
    /\ retrying' = FALSE
    /\ retry' = NoRetry
    /\ had429' = FALSE
    /\ hadError' = FALSE
    /\ atFailure' = <<>>
    /\ UNCHANGED <<variant, api, history, limit>>
    /\ UNCHANGED <<svars, avars, mvars, others>>

\* the remote end serves the channel's history
RefetchInit ==
    /\ FetchInit
    /\ api = "faithful"
    /\ runs = 0
    /\ firstResult = <<>>

\* the calls and their answers, each request answered by its page, or by a
\* 429 before it
RefetchNext ==
    \/ Call
    \/ ReceivePage
    \/ ReceiveEmpty
    \/ Receive429
    \/ TimerFires
    \/ CallAgain

(***************************************************************************)
(* Concurrent runs of runAIAgent on one channel                            *)
(***************************************************************************)
\* two invocations, suspended on their awaits at the same time
Runs == {"x", "y"}
PromptOf(p) == IF p = "x" THEN "px" ELSE "py"
ResponseOf(p) == IF p = "x" THEN "rx" ELSE "ry"
RunChannel == "c1"

\* the list addToConversation pushes onto: conversationCache[channelId] as it
\* is when the call runs, not the history the run read before its awaits
ListAtPushStale(current, stale) == stale
ListAtPush(current, stale) == current

\* the cache after a push onto the given list of the channel
PushOnto(cache, ch, list, entry) ==
    [c \in DOMAIN cache \cup {ch} |-> IF c = ch THEN Append(list, entry) ELSE cache[c]]

\* runAIAgent is called: it reads the conversation history for the provider's
\* messages and suspends on the provider request
RunCalls ==
    /\ Running
    /\ \E p \in Runs :
        /\ runPc[p] = "idle"
        /\ runPc' = [runPc EXCEPT ![p] = "provider"]
        /\ seen' = [seen EXCEPT ![p] =
                       GetConversationHistory(conversationCache, RunChannel)]
    /\ UNCHANGED <<fvars, svars, avars, mvars, rvars, nvars, tvars>>

\* the provider answers a run: its two addToConversation calls, one after
\* the other with no await between them
RunResponds ==
    /\ \E p \in Runs :
        /\ runPc[p] = "provider"
        /\ runPc' = [runPc EXCEPT ![p] = "responded"]
        /\ LET es == ExchangeEntries(PromptOf(p), ResponseOf(p), now)
               list == ListAtPush(GetConversationHistory(conversationCache, RunChannel),
                                  seen[p])
               r1 == CleanupConversationHistory(
                         PushOnto(conversationCache, RunChannel, list, es[1]),
                         RunChannel, maxConversationHistory, conversationHistoryDays, now)
               r2 == CleanupConversationHistory(Push(r1.cache, RunChannel, es[2]),
                         RunChannel, maxConversationHistory, conversationHistoryDays, now)
           IN  /\ conversationCache' = r2.cache
               /\ writes' = Issue(writes, r1.saves + r2.saves, r2.cache)
               /\ lastOp' = [NoOp EXCEPT !.kind = "exchange", !.ch = RunChannel,
                                        !.entry = es[2], !.saves = r1.saves + r2.saves]
    /\ Len(writes') <= MaxWrites
    /\ appendLog' = [appendLog EXCEPT ![RunChannel] = NoCount]
    /\ saveTimer' = TimerAfterCall(TimerAfterCall(saveTimer))
    /\ sinceCall' = 0
    /\ appends' = appends + 2
    /\ UNCHANGED <<maxConversationHistory, conversationHistoryDays, now, persisted,
                   loadState>>
    /\ UNCHANGED seen
    /\ UNCHANGED <<fvars, avars, mvars, rvars, nvars, tvars>>

\* the provider request of a run fails: the catch block shows the error
RunFails ==
    /\ \E p \in Runs :
        /\ runPc[p] = "provider"
        /\ runPc' = [runPc EXCEPT ![p] = "failed"]
    /\ UNCHANGED seen
    /\ UNCHANGED <<fvars, svars, avars, mvars, rvars, nvars, tvars>>

ExchangeInit ==
    /\ runPc = [p \in Runs |-> "idle"]
    /\ seen = [p \in Runs |-> <<>>]

ExchangeNext ==
    \/ Start
    \/ LoadCompletes
    \/ RunCalls
    \/ RunResponds
    \/ RunFails
    \/ Elapse
    \/ DebounceFires
    \/ WriteSucceeds

(***************************************************************************)
(* fetchNoteWithRetry of exportFriendNotes                                 *)
(***************************************************************************)
\* largest maxRetries drawn beside the default
MaxRetriesDrawn == 2
\* maxRetries = 5
DefaultMaxRetries == 5
\* ?? 5
NoteDefaultRetryAfter == 5
\* + 2000
RetryPadMs == 2000

\* the status of a caught error: 429, 404, or none (the request never
\* reached the remote end)
TooManyRequests == 429
NotFound == 404
NoStatus == 0
NoteHints == {NoHint, 0, 1}
NoAnswer == [status |-> NoStatus, hint |-> NoHint]
\* the value null the promise resolves with
NullNote == "null"

\* e?.body?.retry_after ?? e?.response?.body?.retry_after ?? 5
NoteRetryAfter(h) == IF h = NoHint THEN NoteDefaultRetryAfter ELSE h
\* (retryAfter * 1000) + 2000
NoteWaitTime(h) == NoteRetryAfter(h) * MsPerSecond + RetryPadMs

\* attempt < maxRetries
MayAttemptInclusive(att, max) == att <= max
MayAttempt(att, max) == att < max

\* the head of the for loop: the next request, or return null after it
NoteLoopHead(att) ==
    IF MayAttempt(att, maxRetries)
    THEN /\ noteRequests' = noteRequests + 1
         /\ notePc' = "await"
         /\ UNCHANGED noteResult
    ELSE /\ notePc' = "done"
         /\ noteResult' = NullNote
         /\ UNCHANGED noteRequests

\* fetchNoteWithRetry(userId) is called
NoteCall ==
    /\ notePc = "start"
    /\ NoteLoopHead(attempt)
    /\ UNCHANGED <<maxRetries, attempt, noteAnswer, noteLast, noteWait>>
    /\ UNCHANGED <<fvars, svars, avars, mvars, rvars, cvars, tvars>>

\* the request is answered: return response.body?.note || null
NoteAnswered ==
    /\ notePc = "await"
    /\ notePc' = "done"
    /\ noteResult' = IF noteAnswer = "" THEN NullNote ELSE noteAnswer
    /\ UNCHANGED <<maxRetries, attempt, noteAnswer, noteRequests, noteLast, noteWait>>
    /\ UNCHANGED <<fvars, svars, avars, mvars, rvars, cvars, tvars>>

\* the request is answered 429: sleep(waitTime), then continue
NoteRateLimited ==
    /\ notePc = "await"
    /\ \E h \in NoteHints :
        /\ noteLast' = [status |-> TooManyRequests, hint |-> h]
        /\ noteWait' = NoteWaitTime(h)
    /\ notePc' = "sleep"
    /\ UNCHANGED <<maxRetries, attempt, noteAnswer, noteRequests, noteResult>>
    /\ UNCHANGED <<fvars, svars, avars, mvars, rvars, cvars, tvars>>

\* the request fails otherwise: return null
NoteError ==
    /\ notePc = "await"
    /\ \E st \in {NotFound, NoStatus}, h \in NoteHints :
        noteLast' = [status |-> st, hint |-> h]
    /\ notePc' = "done"
    /\ noteResult' = NullNote
    /\ UNCHANGED <<maxRetries, attempt, noteAnswer, noteRequests, noteWait>>
    /\ UNCHANGED <<fvars, svars, avars, mvars, rvars, cvars, tvars>>

\* the sleep ends: continue, attempt++
NoteWakes ==
    /\ notePc = "sleep"
    /\ attempt' = attempt + 1
    /\ NoteLoopHead(attempt + 1)
    /\ noteWait' = 0
    /\ UNCHANGED <<maxRetries, noteAnswer, noteLast>>
    /\ UNCHANGED <<fvars, svars, avars, mvars, rvars, cvars, tvars>>

NoteInit ==
    /\ maxRetries \in (0..MaxRetriesDrawn) \cup {DefaultMaxRetries}
    /\ attempt = 0
    /\ notePc = "start"
    /\ noteAnswer \in {"", "n"}
    /\ noteRequests = 0
    /\ noteLast = NoAnswer
    /\ noteWait = 0
    /\ noteResult = NullNote

NoteNext ==
    \/ NoteCall
    \/ NoteAnswered
    \/ NoteRateLimited
    \/ NoteError
    \/ NoteWakes

(***************************************************************************)
(* The ShutUpUser plugin: the suppressed set and its toggles               *)
(***************************************************************************)
Users == {"u1", "u2"}
\* the calls of toggleSuppressed that can be suspended at the same time
Callers == {"a", "b"}
\* message?.author?.id of a message without author or without id
NoUser == ""

\* no record under the key: get resolves undefined
NoList == [present |-> FALSE, ids |-> {}]
StoredList(ids) == [present |-> TRUE, ids |-> ids]

NoCall == [pc |-> "idle", id |-> NoUser, produced |-> FALSE, shown |-> FALSE,
           notified |-> FALSE]

\* !!id && suppressedUsers.has(id)
IsSuppressed(set, id) == id # NoUser /\ id \in set

\* if (suppressedUsers.has(id)) suppressedUsers.delete(id); else add(id)
ToggleSetAddOnly(set, id) == set \cup {id}
ToggleSet(set, id) == IF id \in set THEN set \ {id} ELSE set \cup {id}

\* allowSound(message): true without an author id, else !isSuppressed(id)
AllowSound(set, authorId) ==
    IF authorId = NoUser THEN TRUE ELSE ~IsSuppressed(set, authorId)

\* start: loadSuppressed() calls get and suspends
SupStart ==
    /\ supLoad = "idle"
    /\ supLoad' = "loading"
    /\ UNCHANGED <<suppressedUsers, storedIds, setQueue, calls, flips, loadedSet>>
    /\ UNCHANGED <<fvars, svars, avars, mvars, rvars, cvars, nvars>>

\* get resolves: suppressedUsers = new Set(list ?? [])
SupLoadCompletes ==
    /\ supLoad = "loading"
    /\ supLoad' = "loaded"
    /\ suppressedUsers' = storedIds.ids
    /\ loadedSet' = storedIds.ids
    /\ flips' = [u \in Users |-> 0]
    /\ UNCHANGED <<storedIds, setQueue, calls>>
    /\ UNCHANGED <<fvars, svars, avars, mvars, rvars, cvars, nvars>>

\* get rejects: suppressedUsers = new Set()
SupLoadFails ==
    /\ supLoad = "loading"
    /\ supLoad' = "loaded"
    /\ suppressedUsers' = {}
    /\ loadedSet' = {}
    /\ flips' = [u \in Users |-> 0]
    /\ UNCHANGED <<storedIds, setQueue, calls>>
    /\ UNCHANGED <<fvars, svars, avars, mvars, rvars, cvars, nvars>>

\* toggleSuppressed(id) up to its await: the toggle, then persist() calls
\* set with Array.from(suppressedUsers)
ToggleCalled ==
    /\ supLoad # "idle"
    /\ \E c \in Callers, id \in Users :
        /\ calls[c].pc = "idle"
        /\ suppressedUsers' = ToggleSet(suppressedUsers, id)
        /\ calls' = [calls EXCEPT ![c] =
               [pc |-> "persist", id |-> id, produced |-> id \in suppressedUsers',
                shown |-> FALSE, notified |-> FALSE]]
        /\ setQueue' = Append(setQueue, [by |-> c, ids |-> suppressedUsers'])
        /\ flips' = [flips EXCEPT ![id] = 1 - @]
    /\ UNCHANGED <<storedIds, supLoad, loadedSet>>
    /\ UNCHANGED <<fvars, svars, avars, mvars, rvars, cvars, nvars>>

\* after await persist(): const enabled = suppressedUsers.has(id), shown in
\* the notification
AfterPersist(c) ==
    calls' = [calls EXCEPT ![c].pc = "idle",
                           ![c].shown = calls[c].id \in suppressedUsers,
                           ![c].notified = TRUE]

\* the oldest set() in flight succeeds and its call goes on; a set made
\* while the get of the load is pending settles after it
PersistSucceeds ==
    /\ setQueue # <<>>
    /\ supLoad # "loading"
    /\ storedIds' = StoredList(Head(setQueue).ids)
    /\ setQueue' = Tail(setQueue)
    /\ AfterPersist(Head(setQueue).by)
    /\ UNCHANGED <<suppressedUsers, supLoad, flips, loadedSet>>
    /\ UNCHANGED <<fvars, svars, avars, mvars, rvars, cvars, nvars>>

\* the oldest set() in flight rejects: persist ignores the error
PersistFails ==
    /\ setQueue # <<>>
    /\ supLoad # "loading"
    /\ setQueue' = Tail(setQueue)
    /\ AfterPersist(Head(setQueue).by)
    /\ UNCHANGED <<suppressedUsers, storedIds, supLoad, flips, loadedSet>>
    /\ UNCHANGED <<fvars, svars, avars, mvars, rvars, cvars, nvars>>

\* the list a previous session left
StoredChoices == {NoList, StoredList({}), StoredList({"u1"})}

ToggleInit ==
    /\ suppressedUsers = {}
    /\ storedIds \in StoredChoices
    /\ setQueue = <<>>
    /\ supLoad = "idle"
    /\ calls = [c \in Callers |-> NoCall]
    /\ flips = [u \in Users |-> 0]
    /\ loadedSet = {}

ToggleNext ==
    \/ SupStart
    \/ SupLoadCompletes
    \/ SupLoadFails
    \/ ToggleCalled
    \/ PersistSucceeds
    \/ PersistFails

(***************************************************************************)
(* Specifications                                                          *)
(***************************************************************************)
\* the store while only fetchMessages runs
StoreIdle ==
    /\ conversationCache = EmptyCache
    /\ maxConversationHistory = 0
    /\ conversationHistoryDays = 0
    /\ now = 0
    /\ persisted = NoRecord
    /\ saveTimer = NoTimer
    /\ sinceCall = 0
    /\ writes = <<>>
    /\ loadState = "idle"
    /\ appends = 0
    /\ lastOp = NoOp
    /\ appendLog = NoLog

\* fetchMessages while only the store is operated: never called
FetchIdle ==
    /\ FetchInit
    /\ variant = "aiagent"
    /\ api = "arbitrary"
    /\ limit = 0

\* runAIAgent while it is never called
AgentIdle ==
    /\ AgentInit
    /\ credential = FALSE

\* no batch is handed to a consumer
FormatIdle ==
    /\ batch = <<>>
    /\ consumer = "none"
    /\ pos = 0
    /\ output = <<>>
    /\ finished = FALSE

\* fetchMessages is called once at most
RefetchIdle ==
    /\ runs = 0
    /\ firstResult = <<>>

\* no run of runAIAgent beside the one of the /ai command
ExchangeIdle == ExchangeInit

\* fetchNoteWithRetry is never called
NoteIdle ==
    /\ NoteInit
    /\ maxRetries = DefaultMaxRetries
    /\ noteAnswer = ""

\* ShutUpUser is not started
ToggleIdle ==
    /\ ToggleInit
    /\ storedIds = NoList

\* the other plugins are not running
OthersIdle == ExchangeIdle /\ NoteIdle /\ ToggleIdle

FetchSpecInit ==
    FetchInit /\ StoreIdle /\ AgentIdle /\ FormatIdle /\ RefetchIdle /\ OthersIdle
StoreSpecInit ==
    StoreInit /\ FetchIdle /\ AgentIdle /\ FormatIdle /\ RefetchIdle /\ OthersIdle
FormatSpecInit ==
    FormatInit /\ FetchIdle /\ StoreIdle /\ AgentIdle /\ RefetchIdle /\ OthersIdle
RefetchSpecInit ==
    RefetchInit /\ StoreIdle /\ AgentIdle /\ FormatIdle /\ OthersIdle
ExchangeSpecInit ==
    StoreInit /\ persisted = NoRecord /\ FetchIdle /\ AgentIdle /\ FormatIdle
    /\ RefetchIdle /\ ExchangeInit /\ NoteIdle /\ ToggleIdle
NoteSpecInit ==
    NoteInit /\ FetchIdle /\ StoreIdle /\ AgentIdle /\ FormatIdle /\ RefetchIdle
    /\ ExchangeIdle /\ ToggleIdle
ToggleSpecInit ==
    ToggleInit /\ FetchIdle /\ StoreIdle /\ AgentIdle /\ FormatIdle /\ RefetchIdle
    /\ ExchangeIdle /\ NoteIdle
AgentSpecInit ==
    StoreInit /\ FetchIdle /\ AgentInit /\ FormatIdle /\ RefetchIdle /\ OthersIdle

\* one run of fetchMessages
FetchSpec == FetchSpecInit /\ [][FetchNext]_vars

\* every step of a run is eventually taken: the host's event loop delivers
\* each response and fires each timer
FetchFairSpec == FetchSpec /\ WF_vars(FetchNext)

\* the runs of FetchSpecInit over a short history, and the run that asks for
\* one message more than a page holds from a channel that has as many
FetchCalmInit ==
    /\ FetchSpecInit
    /\ \/ Len(history) <= MaxHist
       \/ Len(history) = limit /\ limit = BatchMax + 1

\* a run of fetchMessages answered 429 finitely often, each of its steps
\* eventually taken
FetchCalmSpec == FetchCalmInit /\ [][CalmNext]_vars /\ WF_vars(CalmNext)

\* the store's operations in any order
StoreSpec == StoreSpecInit /\ [][StoreNext]_vars

\* the store's operations while the DataStore never fails
SaveNext ==
    \/ AddToConversation
    \/ Elapse
    \/ DebounceFires
    \/ WriteSucceeds
    \/ ClearConversation
    \/ CleanupCommand
    \/ Start
    \/ LoadCompletes
    \/ Stop
    \/ ChangeSettings
    \/ Tick
SaveSpec == StoreSpecInit /\ [][SaveNext]_vars

\* fetchMessages called twice against one history
RefetchSpec == RefetchSpecInit /\ [][RefetchNext]_vars

\* two runs of runAIAgent on one channel, no record in storage
ExchangeSpec == ExchangeSpecInit /\ [][ExchangeNext]_vars

\* one call of fetchNoteWithRetry; the host's event loop delivers each
\* answer and ends each sleep
NoteSpec == NoteSpecInit /\ [][NoteNext]_vars /\ WF_vars(NoteNext)

\* ShutUpUser: its load and the toggles of two callers
ToggleSpec == ToggleSpecInit /\ [][ToggleNext]_vars

\* a consumer formats one batch
FormatSpec == FormatSpecInit /\ [][FormatNext]_vars

\* the commands of aiagent with one run of runAIAgent at a time
AgentSpec == AgentSpecInit /\ [][AgentNext]_vars

(***************************************************************************)
(* Properties of fetchMessages                                             *)
(***************************************************************************)
Ascending(list) ==
    \A i, j \in DOMAIN list : i < j => GetTime(list[i]) <= GetTime(list[j])
DistinctIds(list) ==
    \A i, j \in DOMAIN list : i # j => list[i].id # list[j].id
HasNull(list) == \E i \in DOMAIN list : IsNull(list[i])
\* the earliest timestamp a collected list holds for an id
FirstTime(list, id) ==
    LET times == {GetTime(list[i]) : i \in {k \in DOMAIN list : list[k].id = id}}
    IN  CHOOSE t \in times : \A u \in times : t <= u
\* res is list sorted, deduplicated and truncated to its n most recent ids
BuiltFrom(res, list, n) ==
    /\ Ascending(res) /\ DistinctIds(res)
    /\ Range(res) \subseteq Range(list)
    /\ Len(res) = Min(n, Cardinality(IdsOf(list)))
    /\ \A id \in IdsOf(list) \ IdsOf(res) :
          \A i \in DOMAIN res : FirstTime(list, id) <= GetTime(res[i])

FetchReturnsMostRecent ==
    (pc = "done" /\ api = "faithful" /\ ~had429 /\ ~hadError) =>
        LET H == Len(history)
            k == Min(limit, H)
            expected == SubSeq(history, H - k + 1, H)
        IN  /\ Len(result) = k
            /\ Range(result) = Range(expected)
            /\ Ascending(result)
            /\ (\A i, j \in DOMAIN history :
                    i < j => GetTime(history[i]) < GetTime(history[j]))
                => result = expected

\* a run of two pages (the first capped at 100) that leaves older history behind
FetchReturnsMostRecentWitness ==
    /\ pc = "done" /\ api = "faithful" /\ ~had429 /\ ~hadError
    /\ limit > BatchMax /\ Len(result) = limit /\ Len(history) >= limit
    /\ req.limit = limit - BatchMax

\* C3: after a 429 the fetcher sleeps retry_after seconds (5 s only when the
\* server specifies none) and re-issues the identical request on an unchanged
\* collected list.
RetrySleepsServerInterval ==
    /\ pc = "retryDelay" =>
          sleepMs = (IF hint = NoHint THEN DefaultRetryAfter ELSE hint) * MsPerSecond
    /\ (pc = "await" /\ retrying) => (req = retry.req /\ allMessages = retry.all)

FetchNeverRejects ==
    /\ pc # "rejected"
    /\ (pc = "done" /\ fellBack) =>
          IF loadedMessages.present
          THEN BuiltFrom(result, loadedMessages.array, limit)
          ELSE result = <<>>
    /\ (pc = "done" /\ ~fellBack) => BuiltFrom(result, allMessages, limit)

\* the sort threw and the fallback returned a truncated MessageStore list
FetchNeverRejectsWitness ==
    /\ pc = "done" /\ fellBack /\ loadedMessages.present
    /\ Len(result) = 1 /\ Len(loadedMessages.array) = 2
    /\ result[1] = loadedMessages.array[1]

\* C6: the retry on 429 is bounded, so every run terminates, even when the
\* remote API answers every request with 429.
FetchTerminates == <>(pc \in {"done", "rejected"})

\* C7: at most one page request is in flight; a request (a 429 retry included)
\* is issued only when none is in flight, at the call or when the timer of the
\* inter-request delay fires.
OneRequestInFlight ==
    /\ [](inflight <= 1 /\ (inflight = 1 <=> pc = "await"))
    /\ [][inflight' > inflight =>
            /\ inflight = 0
            /\ \/ pc = "start"
               \/ pc = "pageDelay" /\ sleepMs = PageDelay(variant, allMessages)
               \/ pc = "retryDelay" /\ sleepMs = RetryDelay(hint)]_vars

\* a retry request in flight after a page was collected
OneRequestInFlightWitness ==
    /\ pc = "await" /\ retrying /\ inflight = 1 /\ Len(allMessages) > 0

(***************************************************************************)
(* Properties of the conversation store                                    *)
(***************************************************************************)
\* the last n elements of s
LastOf(s, n) == [i \in 1..n |-> s[Len(s) - n + i]]
\* what pruning by count alone leaves of a list
CountOnly(conv, max) ==
    IF max = 0 \/ Len(conv) <= max THEN conv ELSE LastOf(conv, max)
\* some entry of the list was written a day or more before t
HasOldEntry(conv, t) == \E i \in DOMAIN conv : conv[i].timestamp + DayMs <= t

\* C8: right after addToConversation(channel, role, content),
\* getConversationHistory(channel) is a list whose last element is the entry
\* just appended, under every retention setting and whether or not a save is
\* pending or in flight.
AppendThenGetEndsWithEntry ==
    lastOp.kind = "append" =>
        LET h == GetConversationHistory(conversationCache, lastOp.ch)
        IN  Len(h) > 0 /\ h[Len(h)] = lastOp.entry

\* an append that was pruned by count while a debounced save is pending and
\* a write is in flight
AppendThenGetEndsWithEntryWitness ==
    /\ lastOp.kind = "append" /\ saveTimer # NoTimer /\ writes # <<>>
    /\ maxConversationHistory > 0
    /\ appendLog[lastOp.ch].counted
    /\ Len(appendLog[lastOp.ch].log) > maxConversationHistory
    /\ Len(GetConversationHistory(conversationCache, lastOp.ch)) = maxConversationHistory

PruneIgnoresAgeWhenDaysZero ==
    [][conversationHistoryDays = 0 =>
          /\ lastOp'.kind = "append" =>
                LET ch == lastOp'.ch
                    pushed == Append(GetConversationHistory(conversationCache, ch),
                                     lastOp'.entry)
                IN  /\ conversationCache'[ch] = CountOnly(pushed, maxConversationHistory)
                    /\ \A c \in DOMAIN conversationCache \ {ch} :
                          conversationCache'[c] = conversationCache[c]
          /\ lastOp'.kind = "cleanup" =>
                /\ DOMAIN conversationCache' = DOMAIN conversationCache
                /\ \A c \in DOMAIN conversationCache :
                      conversationCache'[c] =
                          CountOnly(conversationCache[c], maxConversationHistory)
          /\ lastOp'.kind = "load" =>
                /\ DOMAIN conversationCache' = DOMAIN persisted.data
                /\ \A c \in DOMAIN persisted.data :
                      conversationCache'[c] =
                          CountOnly(persisted.data[c], maxConversationHistory)]_vars

\* a list was pruned by count, days being 0, and an entry a day old is left
PruneIgnoresAgeWhenDaysZeroWitness ==
    /\ lastOp.kind \in {"cleanup", "load"}
    /\ conversationHistoryDays = 0
    /\ \E ch \in DOMAIN conversationCache :
          /\ maxConversationHistory > 0
          /\ Len(conversationCache[ch]) = maxConversationHistory
          /\ HasOldEntry(conversationCache[ch], now)

\* C11: getConversationHistory(channel) is the empty list for every channel
\* without an entry in the cache; right after clearConversation(channel) it
\* is the empty list, whatever the channel held.
ClearThenGetIsEmpty ==
    /\ \A ch \in Channels :
          ch \notin DOMAIN conversationCache =>
              GetConversationHistory(conversationCache, ch) = <<>>
    /\ lastOp.kind = "clear" =>
          /\ lastOp.ch \notin DOMAIN conversationCache
          /\ GetConversationHistory(conversationCache, lastOp.ch) = <<>>

\* a channel holding entries was cleared
ClearThenGetIsEmptyWitness ==
    /\ lastOp.kind = "clear"
    /\ Len(lastOp.entry) > 0

\* C12: calls of saveConversationData less than 1000 ms apart coalesce:
\* each call restarts the timer and issues no write itself; the write is
\* issued when 1000 ms have passed since the last call, it is one set() call
\* and it carries the map as it is then.
DebounceCoalesces ==
    [][/\ lastOp'.kind = "append" =>
            /\ saveTimer' = DebounceMs
            /\ lastOp'.saves = 0 => writes' = writes
       /\ lastOp'.kind = "flush" =>
            /\ sinceCall + TimeStep = DebounceMs
            /\ lastOp'.saves = 1
            /\ writes' = Append(writes, [data |-> conversationCache'])
            /\ conversationCache' = conversationCache
            /\ saveTimer' = NoTimer
       /\ (writes' # writes /\ Len(writes') >= Len(writes)) => lastOp'.saves > 0]_vars

\* two calls were made while get was pending, so that no write has settled,
\* and the one write in flight is the timer's and carries both entries
DebounceCoalescesWitness ==
    /\ lastOp.kind = "flush"
    /\ loadState = "loading"
    /\ appends = 2
    /\ writes = <<[data |-> conversationCache]>>
    /\ \E ch \in DOMAIN conversationCache : Len(conversationCache[ch]) = 2

\* the map of the persisted record, empty while there is no record
PersistedMap == IF persisted.present THEN persisted.data ELSE EmptyCache

\* C13: whenever no debounce timer is pending and no write is in flight, all
\* writes having succeeded, the persisted record equals the in-memory map.
PersistedMatchesWhenQuiet ==
    (/\ loadState \in {"loaded", "stopped"}
     /\ saveTimer = NoTimer
     /\ writes = <<>>) => PersistedMap = conversationCache

\* what loading leaves of a persisted list: the entries newer than the cutoff
\* when a number of days is set, cut to the last max when a count is set
WithinAge(conv, days, t) ==
    days > 0 => \A i \in DOMAIN conv : conv[i].timestamp > t - days * DayMs
PrunedOnce(conv, max, days, t) ==
    CountOnly(IF days > 0
              THEN SelectSeq(conv, LAMBDA e : e.timestamp > t - days * DayMs)
              ELSE conv, max)

\* C14: when loadConversationData completes on a persisted map, the cache is
\* that map with every channel pruned once, every channel then satisfies the
\* age and count limits, and a save is issued if and only if the pruning
\* altered a channel.
LoadPrunesEveryChannel ==
    [][lastOp'.kind = "load" =>
          /\ DOMAIN conversationCache' = DOMAIN persisted.data
          /\ \A c \in DOMAIN persisted.data :
                /\ conversationCache'[c] =
                       PrunedOnce(persisted.data[c], maxConversationHistory,
                                  conversationHistoryDays, now)
                /\ WithinAge(conversationCache'[c], conversationHistoryDays, now)
                /\ maxConversationHistory > 0 =>
                       Len(conversationCache'[c]) <= maxConversationHistory
          /\ (lastOp'.saves > 0) <=> (conversationCache' # persisted.data)
          /\ IF conversationCache' # persisted.data
             THEN writes' = Append(writes, [data |-> conversationCache'])
             ELSE writes' = writes]_vars

\* a load pruned the persisted lists and its save is in flight
LoadPrunesEveryChannelWitness ==
    /\ lastOp.kind = "load" /\ lastOp.saves > 0
    /\ persisted.present /\ conversationCache # persisted.data
    /\ writes # <<>>

\* C18: a failure of a save or of the load is reported by a notification,
\* leaves the in-memory map as it was and is not retried.
StorageFailureReported ==
    lastOp.kind \in {"saveFailed", "loadFailed"} => lastOp.notice

(***************************************************************************)
(* Properties of runAIAgent and the commands                               *)
(***************************************************************************)
\* a step of runAIAgent: its call, or the settling of one of its awaits
AgentStep == agentRuns' # agentRuns \/ agentPc' # agentPc

\* C15: runAIAgent changes the conversation list only in the step in which
\* the provider's response arrives: the list then ends with the user prompt
\* followed by the assistant response (what the retention limits keep of
\* them), both appended to the list as it was when no limit is set, and a
\* save is scheduled; every other step of a run, each failure included,
\* leaves the cache, the debounce timer and the writes in flight as they were.
ExchangeAppendsTwo ==
    [][AgentStep =>
        IF agentOutcome' = "responded" /\ agentPc = "provider"
        THEN LET ch == lastOp'.ch
                 old == GetConversationHistory(conversationCache, ch)
                 new == GetConversationHistory(conversationCache', ch)
                 user == [role |-> "user", content |-> Prompt, timestamp |-> now]
             IN  /\ lastOp'.kind = "exchange"
                 /\ lastOp'.entry.role = "assistant"
                 /\ lastOp'.entry.content \in Responses
                 /\ Len(new) >= 1
                 /\ new[Len(new)] = lastOp'.entry
                 /\ Len(new) >= 2 => new[Len(new) - 1] = user
                 /\ Len(new) <= Len(old) + 2
                 /\ (maxConversationHistory = 0 /\ conversationHistoryDays = 0)
                        => new = old \o <<user, lastOp'.entry>>
                 /\ saveTimer' = DebounceMs
        ELSE UNCHANGED <<conversationCache, saveTimer, sinceCall, writes>>
    ]_vars

\* the response of a second run arrived, no count limit set: the list is the
\* prompt followed by the response, and the save is scheduled
ExchangeAppendsTwoWitness ==
    /\ agentOutcome = "responded"
    /\ lastOp.kind = "exchange"
    /\ agentRuns = 2
    /\ maxConversationHistory = 0
    /\ Len(GetConversationHistory(conversationCache, "c1")) = 2
    /\ conversationCache["c1"][1].role = "user"
    /\ conversationCache["c1"][2].role = "assistant"
    /\ saveTimer = DebounceMs

\* C16: a call of runAIAgent while the key of the selected provider is not
\* set shows the configuration notice and ends the run with no network call
\* issued (no page request, no provider request), the store untouched; an
\* aborted run has issued none.
MissingCredentialAborts ==
    [][/\ (agentRuns' # agentRuns /\ ~credential) =>
            /\ agentOutcome' = "aborted"
            /\ agentPc' = "done"
            /\ notice' = "configure"
            /\ network' = {}
            /\ UNCHANGED svars
       /\ agentOutcome' = "aborted" => network' = {}
    ]_vars

\* a run was aborted for the missing key after an earlier run had issued
\* requests and been answered
MissingCredentialAbortsWitness ==
    /\ agentOutcome = "aborted"
    /\ notice = "configure"
    /\ agentRuns = 2
    /\ ~credential
    /\ network = {}
    /\ appends = 2

\* C17: no error leaves a command handler uncaught.
NoUncaughtError == ~uncaught

(***************************************************************************)
(* Properties of the consumers of a batch                                  *)
(***************************************************************************)
\* C19: a consumer through with a batch has output one line per message, in
\* order: the placeholder for each message whose formatting failed, the
\* formatted message for every other one.
BadMessageKeepsRest ==
    finished =>
        /\ Len(output) = Len(batch)
        /\ \A i \in DOMAIN batch :
              output[i] = IF FormatThrows(batch[i]) THEN Placeholder ELSE Line(batch[i])

AfterCutoff(conv, days, t) ==
    SelectSeq(conv, LAMBDA e : e.timestamp > t - days * DayMs)

\* C21: with conversationHistoryDays = D > 0 a prune of every channel leaves
\* of each list the entries written at now - D days or after it, the entry
\* written at the cutoff exactly included, cut to the last
\* maxConversationHistory of them.
AgeFilterKeepsCutoff ==
    [][(lastOp'.kind = "cleanup" /\ conversationHistoryDays > 0) =>
          \A c \in DOMAIN conversationCache :
              conversationCache'[c] =
                  CountOnly(SelectSeq(conversationCache[c],
                                LAMBDA e : e.timestamp >=
                                           now - conversationHistoryDays * DayMs),
                            maxConversationHistory)]_vars

\* C22: cleanupConversationHistory issues a save if and only if it changed
\* the channel's list, and none on an absent or empty channel, which it
\* leaves as it is; the save of an append's prune is a write of its own,
\* made at once, carrying the pruned cache.
PruneWritesIffChanged ==
    [][/\ \A ch \in Channels :
              LET r == CleanupConversationHistory(conversationCache, ch,
                           maxConversationHistory, conversationHistoryDays, now)
              IN  /\ (r.saves = 1) <=> (r.cache # conversationCache)
                  /\ r.saves \in {0, 1}
                  /\ GetConversationHistory(conversationCache, ch) = <<>> =>
                         (r.saves = 0 /\ r.cache = conversationCache)
       /\ lastOp'.kind = "append" =>
              LET pushed == Push(conversationCache, lastOp'.ch, lastOp'.entry)
              IN  /\ (lastOp'.saves = 1) <=> (conversationCache' # pushed)
                  /\ writes' = IF conversationCache' # pushed
                               THEN Append(writes, [data |-> conversationCache'])
                               ELSE writes]_vars

\* an append whose prune removed an entry: its write is in flight while the
\* debounce timer of the append is still pending
PruneWritesIffChangedWitness ==
    /\ lastOp.kind = "append"
    /\ lastOp.saves = 1
    /\ writes = <<[data |-> conversationCache]>>
    /\ saveTimer = DebounceMs
    /\ Len(conversationCache[lastOp.ch]) = maxConversationHistory

\* C23: when loadConversationData completes, every entry the cache held is
\* still in the cache, no retention limit being set.
LoadMergesCache ==
    [][(loadState = "loading" /\ loadState' = "loaded"
            /\ maxConversationHistory = 0 /\ conversationHistoryDays = 0) =>
          \A c \in DOMAIN conversationCache :
              /\ c \in DOMAIN conversationCache'
              /\ \A i \in DOMAIN conversationCache[c] :
                    \E j \in DOMAIN conversationCache'[c] :
                        conversationCache'[c][j] = conversationCache[c][i]]_vars

RECURSIVE IsSubseq(_, _)
\* a is b with some elements left out
IsSubseq(a, b) ==
    IF a = <<>> THEN TRUE
    ELSE IF b = <<>> THEN FALSE
    ELSE IF Head(a) = Head(b) THEN IsSubseq(Tail(a), Tail(b))
    ELSE IsSubseq(a, Tail(b))
\* a is the end of b
IsSuffix(a, b) == Len(a) <= Len(b) /\ a = LastOf(b, Len(a))

\* C24: every operation but a clear leaves of a channel's list a
\* subsequence, in order, of the list it held with the appended entry at its
\* end (of the loaded list, for a load); the count filter keeps a suffix of
\* what the age filter left; every other step leaves the cache as it is.
ListStaysSubsequence ==
    [][/\ lastOp'.kind = "append" =>
              LET ch == lastOp'.ch
                  pushed == Append(GetConversationHistory(conversationCache, ch),
                                   lastOp'.entry)
                  aged == IF conversationHistoryDays > 0
                          THEN AfterCutoff(pushed, conversationHistoryDays, now)
                          ELSE pushed
              IN  /\ IsSubseq(conversationCache'[ch], pushed)
                  /\ IsSuffix(conversationCache'[ch], aged)
       /\ lastOp'.kind = "cleanup" =>
              \A c \in DOMAIN conversationCache :
                  LET aged == IF conversationHistoryDays > 0
                              THEN AfterCutoff(conversationCache[c],
                                               conversationHistoryDays, now)
                              ELSE conversationCache[c]
                  IN  /\ IsSubseq(conversationCache'[c], conversationCache[c])
                      /\ IsSuffix(conversationCache'[c], aged)
       /\ lastOp'.kind = "load" =>
              \A c \in DOMAIN conversationCache' :
                  IsSubseq(conversationCache'[c], persisted.data[c])
       /\ lastOp'.kind \notin {"append", "cleanup", "load", "clear"} =>
              conversationCache' = conversationCache]_vars

\* an append onto a loaded list pruned by count: the list is the newer loaded
\* entry followed by the appended one
ListStaysSubsequenceWitness ==
    /\ lastOp.kind = "append"
    /\ maxConversationHistory = 2
    /\ Len(GetConversationHistory(conversationCache, lastOp.ch)) = 2
    /\ conversationCache[lastOp.ch][1] = OldEntry("q")
    /\ conversationCache[lastOp.ch][2] = lastOp.entry

(***************************************************************************)
(* Properties of concurrent runs of runAIAgent                             *)
(***************************************************************************)
\* the channel's list holds an entry with the content
Holds(list, content) == \E i \in DOMAIN list : list[i].content = content
\* both runs were answered
BothResponded == \A p \in Runs : runPc[p] = "responded"

AssistantFollowsUser ==
    LET list == GetConversationHistory(conversationCache, RunChannel)
    IN  \A p \in Runs : \A i, j \in DOMAIN list :
            (list[i].role = "user" /\ list[i].content = PromptOf(p)
               /\ list[j].role = "assistant" /\ list[j].content = ResponseOf(p))
            => j = i + 1

\* run y, called after x and answered before it: the list is the exchange of
\* y followed by the exchange of x
AssistantFollowsUserWitness ==
    LET list == GetConversationHistory(conversationCache, RunChannel)
    IN  /\ BothResponded
        /\ Len(list) = 4
        /\ list[1].content = PromptOf("y")
        /\ list[2].content = ResponseOf("y")
        /\ list[3].content = PromptOf("x")
        /\ list[4].content = ResponseOf("x")

(***************************************************************************)
(* Termination of fetchMessages and of fetchNoteWithRetry                  *)
(***************************************************************************)
\* C26: a run of fetchMessages answered 429 finitely often ends; a page is
\* added only to a list shorter than N, makes it longer, and was asked for
\* with min(100, N - collected), so at most N pages are added.
FetchEndsUnlessRateLimited ==
    /\ <>(pc \in {"done", "rejected"})
    /\ [][allMessages' # allMessages =>
              /\ pc = "await"
              /\ Len(allMessages) < limit
              /\ Len(allMessages') > Len(allMessages)
              /\ req.limit = Min(BatchMax, limit - Len(allMessages))]_vars

\* a run for more than 100 messages ended with all of them, a 429 among its
\* answers
FetchEndsUnlessRateLimitedWitness ==
    /\ pc = "done"
    /\ had429
    /\ ~hadError
    /\ limit > BatchMax
    /\ Len(allMessages) = limit

\* C28: fetchNoteWithRetry issues maxRetries requests at most; a request
\* after the first follows a 429 and a sleep of retry_after * 1000 + 2000 ms,
\* retry_after being 5 when the answer carries none; any other error ends
\* the call with null and no further request; after maxRetries answers of
\* 429 it returns null; the call always ends.
NoteRetriesBounded ==
    /\ [](noteRequests <= maxRetries)
    /\ [][noteRequests' # noteRequests =>
              /\ noteRequests' = noteRequests + 1
              /\ noteRequests > 0 =>
                    /\ notePc = "sleep"
                    /\ noteLast.status = TooManyRequests
                    /\ noteWait = (IF noteLast.hint = NoHint THEN NoteDefaultRetryAfter
                                   ELSE noteLast.hint) * MsPerSecond + RetryPadMs]_vars
    /\ [][(noteLast' # noteLast /\ noteLast'.status # TooManyRequests) =>
              /\ notePc' = "done"
              /\ noteResult' = NullNote
              /\ noteRequests' = noteRequests]_vars
    /\ []((notePc = "done" /\ attempt = maxRetries) =>
              (noteRequests = maxRetries /\ noteResult = NullNote))
    /\ <>(notePc = "done")

\* the default five requests were all answered 429, the last without a
\* retry_after: the call returned null
NoteRetriesBoundedWitness ==
    /\ notePc = "done"
    /\ maxRetries = DefaultMaxRetries
    /\ noteRequests = DefaultMaxRetries
    /\ noteLast = [status |-> TooManyRequests, hint |-> NoHint]
    /\ noteAnswer = "n"
    /\ noteResult = NullNote

(***************************************************************************)
(* ShutUpUser: notifications, the persisted list and allowSound            *)
(***************************************************************************)
\* C29: the notification of a call of toggleSuppressed reports the state
\* that the call's own toggle produced for the user: enabled when it added
\* the id, disabled when it removed it.
ToggleReportsOwnState ==
    \A c \in Callers :
        calls[c].notified => calls[c].shown = calls[c].produced

\* C30: allowSound(message) is false exactly when the message has an author
\* id that is in the suppressed set; once loaded, an id is in the set exactly
\* when its membership at the load has been flipped by an odd number of
\* toggles if it was absent and by an even number if it was present; a
\* message without author id allows sound; toggling an id twice restores the
\* set.
SoundFollowsToggleParity ==
    /\ \A authorId \in Users \cup {NoUser} :
           AllowSound(suppressedUsers, authorId)
               = ~(authorId # NoUser /\ authorId \in suppressedUsers)
    /\ AllowSound(suppressedUsers, NoUser)
    /\ supLoad = "loaded" =>
           \A id \in Users :
               id \in suppressedUsers <=> ((id \in loadedSet) # (flips[id] = 1))
    /\ \A id \in Users :
           ToggleSet(ToggleSet(suppressedUsers, id), id) = suppressedUsers

\* the list was loaded with u1 in it; one toggle has since removed u1 and
\* one has added u2, both calls notified: u1 sounds, u2 does not
SoundFollowsToggleParityWitness ==
    /\ supLoad = "loaded"
    /\ loadedSet = {"u1"}
    /\ flips = [u \in Users |-> 1]
    /\ suppressedUsers = {"u2"}
    /\ \A c \in Callers : calls[c].notified
    /\ AllowSound(suppressedUsers, "u1")
    /\ ~AllowSound(suppressedUsers, "u2")

====
